---- MODULE Spec2Model ----
(***************************************************************************)
(* Model of the calculus learning client: the content stream and its      *)
(* marker extraction (contentGenerationApi.ts), the content store and     *)
(* its history cursor (contentGenerationStore.tsx), the plan conversation *)
(* (page.tsx, learningPlanApi.ts) and the mark-topic-complete endpoint    *)
(* (SERVER_IMPLEMENTATION_SUMMARY.md).                                     *)
(*                                                                         *)
(* Text is a sequence of one-character strings.  An optional value         *)
(* (undefined / null in the source) is None, a present one is Some(v).     *)
(***************************************************************************)
EXTENDS Integers, Sequences, FiniteSets, TLC

VARIABLES
    store,      \* the zustand state of useContentGenerationStore
    streams,    \* the calls of streamContentGeneration, in the order they began
    ledger,     \* server: the topic_completions rows, in insertion order
    progress,   \* server: concept name -> ConceptProgress row (None before creation)
    requests,   \* server: the mark-topic-complete requests being handled
    applied,    \* server: the update_concept_progress invocations, in order
    chat,       \* useQueryStore / useButtonsStore / useLearningPlanStore / HomePage state
    pstream,    \* the running call of handleLearningPlanQuery (its closure), or None
    profileStore \* the zustand state of useProfileStore, and its call in progress

vars == <<store, streams, ledger, progress, requests, applied, chat, pstream, profileStore>>

None == <<>>
Some(v) == <<v>>

\* JavaScript truthiness of an optional string: undefined, null and "" are falsy.
Falsy(o) == o = None \/ o[1] = <<>>

----------------------------------------------------------------------------
(* String operations of the source, on sequences of characters.            *)

WS == {" ", "\n", "\t", "\r"}
Digits == {"0", "1", "2", "3", "4", "5", "6", "7", "8", "9"}
NL == <<"\n">>

StartsAt(s, pat, i) ==
    /\ i >= 1
    /\ i + Len(pat) - 1 <= Len(s)
    /\ SubSeq(s, i, i + Len(pat) - 1) = pat

\* String.prototype.includes
Includes(s, pat) == \E i \in 1..Len(s) : StartsAt(s, pat, i)

\* String.prototype.indexOf, 1-based; 0 when absent
IndexOf(s, pat) ==
    IF Includes(s, pat)
    THEN CHOOSE i \in 1..Len(s) :
            StartsAt(s, pat, i) /\ \A j \in 1..(i - 1) : ~StartsAt(s, pat, j)
    ELSE 0

\* String.prototype.lastIndexOf, 1-based; 0 when absent
LastIndexOf(s, pat) ==
    IF Includes(s, pat)
    THEN CHOOSE i \in 1..Len(s) :
            StartsAt(s, pat, i) /\ \A j \in (i + 1)..Len(s) : ~StartsAt(s, pat, j)
    ELSE 0

\* String.prototype.split with a string separator
RECURSIVE Split(_, _)
Split(s, sep) ==
    LET i == IndexOf(s, sep)
    IN IF i = 0
       THEN <<s>>
       ELSE <<SubSeq(s, 1, i - 1)>> \o Split(SubSeq(s, i + Len(sep), Len(s)), sep)

RECURSIVE TrimStart(_)
TrimStart(s) == IF s # <<>> /\ Head(s) \in WS THEN TrimStart(Tail(s)) ELSE s

RECURSIVE TrimEnd(_)
TrimEnd(s) ==
    IF s # <<>> /\ s[Len(s)] \in WS THEN TrimEnd(SubSeq(s, 1, Len(s) - 1)) ELSE s

\* String.prototype.trim
Trim(s) == TrimEnd(TrimStart(s))

\* String.prototype.replace(pat, "") with a string pattern: the first occurrence only
RemoveFirst(s, pat) ==
    LET i == IndexOf(s, pat)
    IN IF i = 0 THEN s ELSE SubSeq(s, 1, i - 1) \o SubSeq(s, i + Len(pat), Len(s))

\* Array.prototype.find(line => line.includes(pat))
RECURSIVE FindLine(_, _)
FindLine(lines, pat) ==
    IF lines = <<>> THEN None
    ELSE IF Includes(Head(lines), pat) THEN Some(Head(lines))
    ELSE FindLine(Tail(lines), pat)

\* parseInt(d, 10) of one digit
ParseDigit(d) ==
    CASE d = "0" -> 0 [] d = "1" -> 1 [] d = "2" -> 2 [] d = "3" -> 3 [] d = "4" -> 4
      [] d = "5" -> 5 [] d = "6" -> 6 [] d = "7" -> 7 [] d = "8" -> 8 [] d = "9" -> 9

----------------------------------------------------------------------------
(* streamContentGeneration: the markers and the per-chunk extraction.      *)

TOPIC == <<"T", "O", "P", "I", "C", ":">>
DEPTH_INCREMENT ==
    <<"D", "E", "P", "T", "H", "_", "I", "N", "C", "R", "E", "M", "E", "N", "T", ":">>

\* The index of the first character at or after i that is not whitespace
\* (Len(s) + 1 when there is none).
RECURSIVE SkipWS(_, _)
SkipWS(s, i) == IF i <= Len(s) /\ s[i] \in WS THEN SkipWS(s, i + 1) ELSE i

\* Whether /DEPTH_INCREMENT:\s*(\d)/ matches with the literal at position i.
DepthMatchAt(line, i) ==
    /\ StartsAt(line, DEPTH_INCREMENT, i)
    /\ LET j == SkipWS(line, i + Len(DEPTH_INCREMENT))
       IN j <= Len(line) /\ line[j] \in Digits

\* depthLine.match(/DEPTH_INCREMENT:\s*(\d)/): the digit of the leftmost match
DepthMatch(line) ==
    IF \E i \in 1..Len(line) : DepthMatchAt(line, i)
    THEN LET i == CHOOSE k \in 1..Len(line) :
                     DepthMatchAt(line, k) /\ \A j \in 1..(k - 1) : ~DepthMatchAt(line, j)
         IN Some(line[SkipWS(line, i + Len(DEPTH_INCREMENT))])
    ELSE None

\* The topic name after one more chunk has been added to fullContent.
ExtractTopic(topicName, fullContent) ==
    IF Falsy(topicName) /\ Includes(fullContent, TOPIC)
    THEN LET topicLine == FindLine(Split(fullContent, NL), TOPIC)
         IN IF topicLine # None
            THEN Some(Trim(RemoveFirst(topicLine[1], TOPIC)))
            ELSE topicName
    ELSE topicName

\* The depth increment after one more chunk has been added to fullContent.
ExtractDepth(depthIncrement, fullContent) ==
    IF depthIncrement = 1 /\ Includes(fullContent, DEPTH_INCREMENT)
    THEN LET depthLine == FindLine(Split(fullContent, NL), DEPTH_INCREMENT)
             match == IF depthLine = None THEN None ELSE DepthMatch(depthLine[1])
         IN IF match # None THEN ParseDigit(match[1]) ELSE depthIncrement
    ELSE depthIncrement

----------------------------------------------------------------------------
(* useContentGenerationStore: the state and the streaming actions.         *)

InitStore ==
    [ currentContent      |-> <<>>,
      currentTopicName    |-> None,
      currentSubjectName  |-> None,
      currentCourseId     |-> None,
      currentConceptName  |-> None,
      currentTopicDepth   |-> 1,
      isStreaming         |-> FALSE,
      isLoading           |-> FALSE,
      error               |-> None,
      topicHistory        |-> <<>>,
      completionStats     |-> None,
      conceptProgress     |-> None,
      showCelebration     |-> FALSE,
      showProgressBar     |-> FALSE,
      topicHistoryFull    |-> <<>>,
      currentHistoryIndex |-> -1,
      isNavigating        |-> FALSE ]

\* The local variables of one call of streamContentGeneration. text is what the
\* generator will have sent when the stream ends, pos how much of it has arrived.
NewStream(text) ==
    [ pc             |-> "reading",
      text           |-> text,
      pos            |-> 0,
      fullContent    |-> <<>>,
      topicName      |-> None,
      depthIncrement |-> 1 ]

\* startContentGeneration without the reset of isNavigating.
MutStartKeepsNavigating(courseId, subjectName, conceptName, text) ==
    /\ store' = [store EXCEPT
                    !.currentContent = <<>>,
                    !.currentTopicName = IF Falsy(conceptName) THEN None ELSE conceptName,
                    !.currentSubjectName = Some(subjectName),
                    !.currentCourseId = Some(courseId),
                    !.currentHistoryIndex = -1,
                    !.isStreaming = TRUE,
                    !.isLoading = TRUE,
                    !.error = None]
    /\ streams' = Append(streams, NewStream(text))

\* startContentGeneration, up to its await: the set() that clears the previous
\* content, and the call of streamContentGeneration.
StartContentGeneration(courseId, subjectName, conceptName, text) ==
    /\ store' = [store EXCEPT
                    !.currentContent = <<>>,
                    !.currentTopicName = IF Falsy(conceptName) THEN None ELSE conceptName,
                    !.currentSubjectName = Some(subjectName),
                    !.currentCourseId = Some(courseId),
                    !.currentHistoryIndex = -1,
                    !.isNavigating = FALSE,
                    !.isStreaming = TRUE,
                    !.isLoading = TRUE,
                    !.error = None]
    /\ streams' = Append(streams, NewStream(text))

\* appendContent
AppendContent(st, chunk) == [st EXCEPT !.currentContent = st.currentContent \o chunk]

\* The onComplete callback startContentGeneration passes to the stream.
OnStreamComplete(st, topicName, depthIncrement) ==
    LET s1 == IF ~Falsy(topicName) THEN [st EXCEPT !.currentTopicName = topicName] ELSE st
        s2 == IF depthIncrement # 0 THEN [s1 EXCEPT !.currentTopicDepth = depthIncrement] ELSE s1
    IN [s2 EXCEPT !.isStreaming = FALSE, !.isLoading = FALSE]

\* The onError callback startContentGeneration passes to the stream.
OnStreamError(st, message) ==
    [st EXCEPT !.error = Some(message), !.isStreaming = FALSE, !.isLoading = FALSE]

\* One iteration of the read loop that received a chunk of n characters:
\* the chunk is added to fullContent, the markers are looked for, onChunk is called.
StreamRead(i, n) ==
    /\ i \in 1..Len(streams)
    /\ streams[i].pc = "reading"
    /\ n \in 1..(Len(streams[i].text) - streams[i].pos)
    /\ LET s == streams[i]
           chunk == SubSeq(s.text, s.pos + 1, s.pos + n)
           fullContent == s.fullContent \o chunk
       IN /\ streams' = [streams EXCEPT ![i] =
                            [s EXCEPT !.pos = s.pos + n,
                                      !.fullContent = fullContent,
                                      !.topicName = ExtractTopic(s.topicName, fullContent),
                                      !.depthIncrement =
                                          ExtractDepth(s.depthIncrement, fullContent)]]
          /\ store' = AppendContent(store, chunk)

\* reader.read() reports done: the loop ends and onComplete is called.
StreamEnd(i) ==
    /\ i \in 1..Len(streams)
    /\ streams[i].pc = "reading"
    /\ streams[i].pos = Len(streams[i].text)
    /\ streams' = [streams EXCEPT ![i].pc = "done"]
    /\ store' = OnStreamComplete(store, streams[i].topicName, streams[i].depthIncrement)

\* The catch block also reached after onComplete has been called.
MutStreamFailAfterDone(i) ==
    /\ i \in 1..Len(streams)
    /\ streams[i].pc \in {"reading", "done"}
    /\ streams' = [streams EXCEPT ![i].pc = "failed"]
    /\ store' = OnStreamError(store, "Request failed")

\* fetch rejects, the response is not ok, or reader.read() rejects: the catch
\* block calls onError. What had arrived stays in the store.
StreamFail(i) ==
    /\ i \in 1..Len(streams)
    /\ streams[i].pc = "reading"
    /\ streams' = [streams EXCEPT ![i].pc = "failed"]
    /\ store' = OnStreamError(store, "Request failed")

----------------------------------------------------------------------------
(* POST /mark-topic-complete: the ledger of topic completions and the      *)
(* ConceptProgress record of each concept.  The server's code is not among *)
(* the sources; the handler follows the steps listed in                    *)
(* SERVER_IMPLEMENTATION_SUMMARY.md, and the specification's insert-if-    *)
(* absent contract where that summary is silent about a second commit.     *)

\* is_complete: depth >= target AND topics >= 3
MinTopics == 3

\* The target depth the learning-plan lookup returns for a concept.
PlanTargetDepth == 4

\* TopicCompletionRequest: depth_increment (required, 1-3)
ValidIncrement(depthIncrement) == depthIncrement \in 1..3

NewProgress(targetDepth) ==
    [ currentDepth    |-> 0,
      targetDepth     |-> targetDepth,
      topicsCompleted |-> 0,
      lastTopicName   |-> None,
      completed       |-> FALSE ]

\* get_or_create_concept_progress: an existing record is returned as it is.
GetOrCreate(prog, conceptName, targetDepth) ==
    IF prog[conceptName] = None
    THEN [prog EXCEPT ![conceptName] = Some(NewProgress(targetDepth))]
    ELSE prog

MutIsCompleteDepthOnly(p) == p.currentDepth >= p.targetDepth

IsComplete(p) == p.currentDepth >= p.targetDepth /\ p.topicsCompleted >= MinTopics

\* update_concept_progress that leaves the topic count as it is.
MutUpdateKeepsCount(p, topicName, depthIncrement) ==
    [p EXCEPT !.currentDepth = @ + depthIncrement,
              !.lastTopicName = Some(topicName)]

\* update_concept_progress: increments depth, increments topic count.
UpdateConceptProgress(p, topicName, depthIncrement) ==
    [p EXCEPT !.currentDepth = @ + depthIncrement,
              !.topicsCompleted = @ + 1,
              !.lastTopicName = Some(topicName)]

\* "Checks if concept is complete" and, when it is, mark_concept_complete.
MarkIfComplete(p) == IF IsComplete(p) THEN [p EXCEPT !.completed = TRUE] ELSE p

MutApplyCompletionResets(p, topicName, depthIncrement) ==
    MarkIfComplete([p EXCEPT !.currentDepth = depthIncrement,
                             !.topicsCompleted = @ + 1,
                             !.lastTopicName = Some(topicName)])

\* applyCompletion: steps 4 and 5 of the handler.
ApplyCompletion(p, topicName, depthIncrement) ==
    MarkIfComplete(UpdateConceptProgress(p, topicName, depthIncrement))

MutRowExistsNever(rows, conceptName, topicName) == FALSE

\* The unique constraint of topic_completions (user, course, subject, concept, topic).
RowExists(rows, conceptName, topicName) ==
    \E k \in 1..Len(rows) :
        rows[k].conceptName = conceptName /\ rows[k].topicName = topicName

NewRow(req) ==
    [ conceptName    |-> req.conceptName,
      topicName      |-> req.topicName,
      depthIncrement |-> req.depthIncrement,
      fullContent    |-> req.fullContent ]

\* ConceptProgressInfo of the response
ProgressInfo(prog, conceptName) == prog[conceptName][1]

\* nextAction of the response
NextAction(p) == IF p.completed THEN "concept_complete" ELSE "continue_learning"

----------------------------------------------------------------------------
(* The content streams the generator may send.                             *)

Str_Ab == <<"A", "b">>
Str_hi == <<"h", "i">>

\* "TOPIC: Ab\nDEPTH_INCREMENT: 2\nhi"
TextBoth == TOPIC \o <<" ">> \o Str_Ab \o NL \o DEPTH_INCREMENT \o <<" ", "2">> \o NL \o Str_hi
\* "hi\nAb": no marker at all
TextPlain == Str_hi \o NL \o Str_Ab
\* "TOPIC: Ab\nTOPIC: hi\nhi": two topic lines, no depth line
TextTwoTopics == TOPIC \o <<" ">> \o Str_Ab \o NL \o TOPIC \o <<" ">> \o Str_hi \o NL \o Str_hi
\* "DEPTH_INCREMENT: 5\nhi TOPIC:Ab \n": a digit out of range, the marker inside a line
TextOdd == DEPTH_INCREMENT \o <<" ", "5">> \o NL \o Str_hi \o <<" ">> \o TOPIC \o Str_Ab \o <<" ">> \o NL
\* "TOPIC: hi\nDEPTH_INCREMENT: x\nDEPTH_INCREMENT:3\n": no digit on the first depth line
TextNoDigit ==
    TOPIC \o <<" ">> \o Str_hi \o NL \o DEPTH_INCREMENT \o <<" ", "x">> \o NL
          \o DEPTH_INCREMENT \o <<"3">> \o NL
\* "TOPIC:\nDEPTH_INCREMENT: 1\nAb": an empty topic name, the default digit
TextEmptyTopic == TOPIC \o NL \o DEPTH_INCREMENT \o <<" ", "1">> \o NL \o Str_Ab

ContentTexts ==
    {TextBoth, TextPlain, TextTwoTopics, TextOdd, TextNoDigit, TextEmptyTopic, <<>>}

Concepts == {<<"L", "i", "m">>}
Course == <<"c", "1">>
Subject == <<"C", "a", "l", "c">>

----------------------------------------------------------------------------
(* SpecStream: one call of startContentGeneration, the stream cut into     *)
(* chunks in every possible way.                                           *)

\* addMessage keeps the last 20 messages.
MaxMessages == 20

\* useQueryStore, useButtonsStore, useLearningPlanStore and the currentPlanId
\* of HomePage. nextId is the next identifier crypto.randomUUID() returns.
InitChat ==
    [ messages               |-> <<>>,
      isTyping               |-> FALSE,
      isCreatingLearningPlan |-> FALSE,
      currentPlanId          |-> None,
      plans                  |-> <<>>,
      nextId                 |-> 1 ]

\* initialState of useProfileStore; call is the invocation of saveProfileData
\* or updateProfileData that is awaiting the API or has returned.
InitProfileStore ==
    [ profile   |-> None,
      isLoading |-> FALSE,
      error     |-> None,
      isSaving  |-> FALSE,
      call      |-> None ]

InitOther ==
    /\ profileStore = InitProfileStore
    /\ ledger = <<>>
    /\ progress = [c \in Concepts |-> None]
    /\ requests = <<>>
    /\ applied = <<>>
    /\ chat = InitChat
    /\ pstream = None

InitStream ==
    /\ store = InitStore
    /\ streams = <<>>
    /\ InitOther

StreamStart ==
    /\ streams = <<>>
    /\ \E text \in ContentTexts, concept \in {None} \cup {Some(c) : c \in Concepts} :
          StartContentGeneration(Course, Subject, concept, text)
    /\ UNCHANGED <<ledger, progress, requests, applied, chat, pstream>>
    /\ UNCHANGED profileStore

StreamChunk ==
    /\ \E i \in 1..Len(streams) :
          \E n \in 1..(Len(streams[i].text) - streams[i].pos) : StreamRead(i, n)
    /\ UNCHANGED <<ledger, progress, requests, applied, chat, pstream>>
    /\ UNCHANGED profileStore

StreamDone ==
    /\ \E i \in 1..Len(streams) : StreamEnd(i)
    /\ UNCHANGED <<ledger, progress, requests, applied, chat, pstream>>
    /\ UNCHANGED profileStore

StreamError ==
    /\ \E i \in 1..Len(streams) : StreamFail(i)
    /\ UNCHANGED <<ledger, progress, requests, applied, chat, pstream>>
    /\ UNCHANGED profileStore

NextStream == StreamStart \/ StreamChunk \/ StreamDone \/ StreamError

SpecStream == InitStream /\ [][NextStream]_vars

----------------------------------------------------------------------------
(* Claims about the content stream.                                        *)

\* What the loop extracts when the whole text arrives as one chunk.
OneChunkTopic(text) == IF text = <<>> THEN None ELSE ExtractTopic(None, text)
OneChunkDepth(text) == IF text = <<>> THEN 1 ELSE ExtractDepth(1, text)

\* C1: at the end of a stream, the topic name and the depth increment given to
\* onComplete are those the same text gives when it arrives as one chunk,
\* however the text was cut into chunks.
C1_ChunkBoundaryInvariance ==
    \A i \in 1..Len(streams) :
        streams[i].pc = "done" =>
            /\ streams[i].topicName = OneChunkTopic(streams[i].text)
            /\ streams[i].depthIncrement = OneChunkDepth(streams[i].text)

IsControlLine(line) == Includes(line, TOPIC) \/ Includes(line, DEPTH_INCREMENT)

RECURSIVE JoinLines(_)
JoinLines(lines) ==
    IF lines = <<>> THEN <<>>
    ELSE IF Len(lines) = 1 THEN lines[1]
    ELSE lines[1] \o NL \o JoinLines(Tail(lines))

\* The text without its control lines.
StripControlLines(text) ==
    JoinLines(SelectSeq(Split(text, NL), LAMBDA line : ~IsControlLine(line)))

\* C2: the prose accumulated for display never holds a line with TOPIC: or
\* DEPTH_INCREMENT:, and at the end of the stream it is the text without its
\* control lines.
C2_ControlLinesStripped ==
    /\ \A k \in 1..Len(Split(store.currentContent, NL)) :
           ~IsControlLine(Split(store.currentContent, NL)[k])
    /\ \A i \in 1..Len(streams) :
           streams[i].pc = "done" => store.currentContent = StripControlLines(streams[i].text)

----------------------------------------------------------------------------
(* SpecServer: the endpoint handling concurrent mark-topic-complete        *)
(* requests of one user for one course and subject.                        *)

MaxInFlight == 2

\* The (topic, depth increment) pairs clients send: four topics, a retry of the
\* first with another increment, and an increment the request schema rejects.
ServerPayloads ==
    { <<<<"t", "1">>, 1>>, <<<<"t", "1">>, 2>>, <<<<"t", "1">>, 0>>,
      <<<<"t", "2">>, 1>>, <<<<"t", "3">>, 1>>, <<<<"t", "4">>, 3>> }

RemoveAt(seq, k) == SubSeq(seq, 1, k - 1) \o SubSeq(seq, k + 1, Len(seq))

\* A call of markTopicComplete: the request body, where the server is with it
\* (pc), and the response once the server has one (data).
NewRequest(courseId, subjectName, conceptName, topicName, depthIncrement, fullContent) ==
    [ courseId       |-> courseId,
      subjectName    |-> subjectName,
      conceptName    |-> conceptName,
      topicName      |-> topicName,
      depthIncrement |-> depthIncrement,
      fullContent    |-> fullContent,
      pc             |-> "sent",
      ok             |-> FALSE,
      inserted       |-> FALSE,
      data           |-> None ]

\* TopicCompletionResponse: the id of the row, the progress of the concept,
\* the number of completions of the course, and what the client should do next.
Response(rows, prog, req) ==
    [ topicId         |-> CHOOSE k \in 1..Len(rows) :
                              rows[k].conceptName = req.conceptName
                                  /\ rows[k].topicName = req.topicName,
      conceptProgress |-> ProgressInfo(prog, req.conceptName),
      completionStats |-> Len(rows),
      nextAction      |-> NextAction(ProgressInfo(prog, req.conceptName)) ]

\* The request is validated (depth_increment 1-3); steps 1 and 2: the target depth
\* is looked up and the ConceptProgress record is fetched or created.
ServerReceive(k) ==
    /\ k \in 1..Len(requests)
    /\ requests[k].pc = "sent"
    /\ IF ValidIncrement(requests[k].depthIncrement)
       THEN /\ progress' = GetOrCreate(progress, requests[k].conceptName, PlanTargetDepth)
            /\ requests' = [requests EXCEPT ![k].pc = "insert"]
       ELSE /\ requests' = [requests EXCEPT ![k].pc = "respond"]
            /\ UNCHANGED progress
    /\ UNCHANGED <<ledger, applied>>

\* Step 3: the TopicCompletion is created unless the tuple already has a row;
\* an existing row is returned and the request succeeds without an increment.
ServerCommit(k) ==
    /\ k \in 1..Len(requests)
    /\ requests[k].pc = "insert"
    /\ IF RowExists(ledger, requests[k].conceptName, requests[k].topicName)
       THEN /\ requests' = [requests EXCEPT
                                ![k].pc = "respond", ![k].ok = TRUE,
                                ![k].data = Some(Response(ledger, progress, requests[k]))]
            /\ UNCHANGED ledger
       ELSE /\ ledger' = Append(ledger, NewRow(requests[k]))
            /\ requests' = [requests EXCEPT ![k].pc = "update", ![k].inserted = TRUE]
    /\ UNCHANGED <<progress, applied>>

\* Steps 4 and 5: the progress is updated and checked for completion.
ServerUpdate(k) ==
    /\ k \in 1..Len(requests)
    /\ requests[k].pc = "update"
    /\ LET r == requests[k]
       IN /\ progress' = [progress EXCEPT ![r.conceptName] =
                             Some(ApplyCompletion(progress[r.conceptName][1],
                                                  r.topicName, r.depthIncrement))]
          /\ applied' = Append(applied, [conceptName |-> r.conceptName,
                                         topicName |-> r.topicName,
                                         depthIncrement |-> r.depthIncrement])
          /\ requests' = [requests EXCEPT
                              ![k].pc = "respond", ![k].ok = TRUE,
                              ![k].data = Some(Response(ledger, progress', r))]
    /\ UNCHANGED ledger

InitServer ==
    /\ store = InitStore
    /\ streams = <<>>
    /\ InitOther

SrvArrive ==
    /\ Len(requests) < MaxInFlight
    /\ \E c \in Concepts, p \in ServerPayloads :
          requests' = Append(requests, NewRequest(Course, Subject, c, p[1], p[2], <<>>))
    /\ UNCHANGED <<store, streams, ledger, progress, applied, chat, pstream>>
    /\ UNCHANGED profileStore

SrvReceive ==
    /\ \E k \in 1..Len(requests) : ServerReceive(k)
    /\ UNCHANGED <<store, streams, chat, pstream>>
    /\ UNCHANGED profileStore

SrvCommit ==
    /\ \E k \in 1..Len(requests) : ServerCommit(k)
    /\ UNCHANGED <<store, streams, chat, pstream>>
    /\ UNCHANGED profileStore

SrvUpdate ==
    /\ \E k \in 1..Len(requests) : ServerUpdate(k)
    /\ UNCHANGED <<store, streams, chat, pstream>>
    /\ UNCHANGED profileStore

SrvRespond ==
    /\ \E k \in 1..Len(requests) :
          /\ requests[k].pc = "respond"
          /\ requests' = RemoveAt(requests, k)
    /\ UNCHANGED <<store, streams, ledger, progress, applied, chat, pstream>>
    /\ UNCHANGED profileStore

NextServer == SrvArrive \/ SrvReceive \/ SrvCommit \/ SrvUpdate \/ SrvRespond

SpecServer == InitServer /\ [][NextServer]_vars

----------------------------------------------------------------------------
(* Claims about the ledger and the progress record.                        *)

SameTuple(a, b) == a.conceptName = b.conceptName /\ a.topicName = b.topicName

RECURSIVE SumIncrements(_)
SumIncrements(seq) ==
    IF seq = <<>> THEN 0 ELSE Head(seq).depthIncrement + SumIncrements(Tail(seq))

AppliedOf(conceptName) == SelectSeq(applied, LAMBDA a : a.conceptName = conceptName)

\* C5: whatever the number and interleaving of commit attempts for one
\* (concept, topic), the ledger holds at most one row for it and applyCompletion
\* ran at most once for it; once no attempt for it is between its insert and its
\* update, a row exists exactly when the increment was applied; and the progress
\* record counts each applied increment once.
C5_IdempotentCommit ==
    /\ \A i, j \in 1..Len(ledger) : SameTuple(ledger[i], ledger[j]) => i = j
    /\ \A i, j \in 1..Len(applied) : SameTuple(applied[i], applied[j]) => i = j
    /\ \A i \in 1..Len(applied) :
           RowExists(ledger, applied[i].conceptName, applied[i].topicName)
    /\ \A i \in 1..Len(ledger) :
           (\A k \in 1..Len(requests) :
                ~(requests[k].pc = "update" /\ SameTuple(requests[k], ledger[i])))
           => \E a \in 1..Len(applied) : SameTuple(applied[a], ledger[i])
    /\ \A c \in Concepts :
           IF progress[c] = None
           THEN AppliedOf(c) = <<>>
           ELSE /\ progress[c][1].topicsCompleted = Len(AppliedOf(c))
                /\ progress[c][1].currentDepth = SumIncrements(AppliedOf(c))

\* Two attempts for the same tuple have both been answered with success, one of
\* them having inserted the row and the other having found it.
C5_Witness ==
    \E i, j \in 1..Len(requests) :
        /\ i # j
        /\ SameTuple(requests[i], requests[j])
        /\ requests[i].pc = "respond" /\ requests[i].ok /\ requests[i].inserted
        /\ requests[j].pc = "respond" /\ requests[j].ok /\ ~requests[j].inserted

\* C7: a ConceptProgress record is completed exactly when its depth has reached
\* the target and at least three topics are completed.
C7_CompletionInvariant ==
    \A c \in Concepts :
        progress[c] # None =>
            (progress[c][1].completed <=>
                (progress[c][1].currentDepth >= progress[c][1].targetDepth
                    /\ progress[c][1].topicsCompleted >= 3))

\* A record that is completed with exactly three topics.
C7_Witness ==
    \E c \in Concepts :
        /\ progress[c] # None
        /\ progress[c][1].completed
        /\ progress[c][1].topicsCompleted = 3

\* C8: no step lowers currentDepth or topicsCompleted, and a completed record
\* stays completed.
C8_CompletionMonotone ==
    [][\A c \in Concepts :
          progress[c] # None =>
              /\ progress'[c] # None
              /\ progress'[c][1].currentDepth >= progress[c][1].currentDepth
              /\ progress'[c][1].topicsCompleted >= progress[c][1].topicsCompleted
              /\ (progress[c][1].completed => progress'[c][1].completed)]_vars

\* A record that was already completed before its latest completion was applied.
C8_Witness ==
    \E c \in Concepts :
        /\ progress[c] # None
        /\ progress[c][1].completed
        /\ progress[c][1].topicsCompleted >= 4
        /\ progress[c][1].currentDepth >= progress[c][1].targetDepth + 3

----------------------------------------------------------------------------
(* useContentGenerationStore: completion, clearing and navigation.         *)

\* setCurrentConcept
SetCurrentConcept(conceptName) ==
    store' = [store EXCEPT !.currentConceptName = Some(conceptName)]

\* clearCurrentContent. A stream that is being read is not told.
ClearCurrentContent ==
    store' = [store EXCEPT
                 !.currentContent = <<>>,
                 !.currentTopicName = None,
                 !.currentSubjectName = None,
                 !.currentCourseId = None,
                 !.isStreaming = FALSE,
                 !.isLoading = FALSE,
                 !.error = None]

\* The test at the head of completeCurrentTopic.
MissingRequiredData(st) ==
    \/ Falsy(st.currentCourseId)
    \/ Falsy(st.currentSubjectName)
    \/ Falsy(st.currentConceptName)
    \/ Falsy(st.currentTopicName)

\* completeCurrentTopic, up to its await: the early return, or the call of
\* markTopicComplete with what the store holds at that moment.
CompleteCurrentTopic ==
    IF MissingRequiredData(store)
    THEN /\ store' = [store EXCEPT
                         !.error = Some("Cannot complete topic: missing required data")]
         /\ UNCHANGED requests
    ELSE /\ store' = [store EXCEPT !.isLoading = TRUE, !.error = None]
         /\ requests' = Append(requests,
                               NewRequest(store.currentCourseId[1],
                                          store.currentSubjectName[1],
                                          store.currentConceptName[1],
                                          store.currentTopicName[1],
                                          store.currentTopicDepth,
                                          store.currentContent))

\* completeCurrentTopic after its await, result.success: the completed topic is
\* added to both histories and the cursor is put on it.
CompleteSucceeded(k) ==
    /\ k \in 1..Len(requests)
    /\ requests[k].pc = "respond"
    /\ requests[k].ok
    /\ LET r == requests[k]
           data == r.data[1]
           completedTopic == [ topicName   |-> r.topicName,
                               subjectName |-> r.subjectName,
                               content     |-> r.fullContent,
                               isCompleted |-> TRUE ]
           historyItem == [ id             |-> data.topicId,
                            topicName      |-> r.topicName,
                            fullContent    |-> r.fullContent,
                            depthIncrement |-> r.depthIncrement ]
       IN store' = [store EXCEPT
                       !.topicHistory = Append(@, completedTopic),
                       !.topicHistoryFull = Append(@, historyItem),
                       !.currentHistoryIndex = Len(store.topicHistoryFull),
                       !.isNavigating = TRUE,
                       !.completionStats = Some(data.completionStats),
                       !.conceptProgress = Some(data.conceptProgress),
                       !.showCelebration = (data.nextAction = "concept_complete"),
                       !.showProgressBar = TRUE,
                       !.isLoading = FALSE]
    /\ requests' = RemoveAt(requests, k)

\* completeCurrentTopic, catch block, also putting the cursor on the live generation.
MutCompleteFailedMovesCursor(k) ==
    /\ k \in 1..Len(requests)
    /\ \/ requests[k].pc = "sent"
       \/ requests[k].pc = "respond" /\ ~requests[k].ok
    /\ store' = [store EXCEPT !.error = Some("Failed to mark topic as complete"),
                               !.isLoading = FALSE,
                               !.currentHistoryIndex = -1,
                               !.isNavigating = FALSE]
    /\ requests' = RemoveAt(requests, k)

\* completeCurrentTopic after its await, the catch block: the request did not
\* reach the server, or the response was not ok.
CompleteFailed(k) ==
    /\ k \in 1..Len(requests)
    /\ \/ requests[k].pc = "sent"
       \/ requests[k].pc = "respond" /\ ~requests[k].ok
    /\ store' = [store EXCEPT !.error = Some("Failed to mark topic as complete"),
                               !.isLoading = FALSE]
    /\ requests' = RemoveAt(requests, k)

\* A call of fetchTopicHistory in flight: a request without a body.
NewHistoryRequest(courseId, subjectName, conceptName) ==
    [NewRequest(courseId, subjectName, conceptName, <<>>, 0, <<>>) EXCEPT !.pc = "history"]

\* loadTopicHistory, up to its await.
LoadTopicHistory(courseId, subjectName, conceptName) ==
    requests' = Append(requests, NewHistoryRequest(courseId, subjectName, conceptName))

\* GET /topic-history: the completions of the concept, oldest first, each with
\* its full content.
TopicHistoryOf(rows, conceptName) ==
    LET Item(k) == [ id             |-> k,
                     topicName      |-> rows[k].topicName,
                     fullContent    |-> rows[k].fullContent,
                     depthIncrement |-> rows[k].depthIncrement ]
        RECURSIVE Collect(_)
        Collect(k) ==
            IF k > Len(rows) THEN <<>>
            ELSE IF rows[k].conceptName = conceptName THEN <<Item(k)>> \o Collect(k + 1)
            ELSE Collect(k + 1)
    IN Collect(1)

\* The server answers a topic-history request from the ledger as it is then.
ServerHistory(k) ==
    /\ k \in 1..Len(requests)
    /\ requests[k].pc = "history"
    /\ requests' = [requests EXCEPT
                        ![k].pc = "topics", ![k].ok = TRUE,
                        ![k].data = Some(TopicHistoryOf(ledger, requests[k].conceptName))]
    /\ UNCHANGED <<ledger, progress, applied>>

\* loadTopicHistory after its await, result.success: the list replaces the
\* history; when it is not empty the cursor is put on its last topic.
HistoryLoaded(k) ==
    /\ k \in 1..Len(requests)
    /\ requests[k].pc = "topics"
    /\ LET topics == requests[k].data[1]
           lastIndex == Len(topics) - 1
       IN IF Len(topics) > 0
          THEN store' = [store EXCEPT
                            !.topicHistoryFull = topics,
                            !.currentHistoryIndex = lastIndex,
                            !.currentContent = topics[lastIndex + 1].fullContent,
                            !.currentTopicName = Some(topics[lastIndex + 1].topicName),
                            !.isNavigating = TRUE]
          ELSE store' = [store EXCEPT !.topicHistoryFull = topics]
    /\ requests' = RemoveAt(requests, k)

\* loadTopicHistory after its await, the request failed.
HistoryFailed(k) ==
    /\ k \in 1..Len(requests)
    /\ requests[k].pc = "history"
    /\ store' = [store EXCEPT !.error = Some("Failed to fetch topic history")]
    /\ requests' = RemoveAt(requests, k)

\* The timer completeCurrentTopic sets after a success.
HideProgressBar ==
    /\ store.showProgressBar
    /\ store' = [store EXCEPT !.showProgressBar = FALSE]

\* topicHistoryFull[index], index counted from 0 as in the store.
HistoryAt(st, index) == st.topicHistoryFull[index + 1]

\* navigateToPrevious at index 0 moving to the live generation.
MutAfterPreviousWraps(st0) ==
    LET st == IF st0.showCelebration
              THEN [st0 EXCEPT !.showCelebration = FALSE] ELSE st0
        len == Len(st.topicHistoryFull)
    IN IF st.currentHistoryIndex = -1 /\ len > 0
       THEN [st EXCEPT
                !.currentHistoryIndex = len - 1,
                !.currentContent = HistoryAt(st, len - 1).fullContent,
                !.currentTopicName = Some(HistoryAt(st, len - 1).topicName),
                !.isNavigating = TRUE]
       ELSE IF st.currentHistoryIndex >= 0
       THEN [st EXCEPT !.currentHistoryIndex = @ - 1]
       ELSE st

\* The store after navigateToPrevious is called on st0. When the cursor is
\* beyond the list, prevTopic is undefined and reading its topicName throws
\* before the set().
AfterPrevious(st0) ==
    LET st == IF st0.showCelebration
              THEN [st0 EXCEPT !.showCelebration = FALSE] ELSE st0
        len == Len(st.topicHistoryFull)
    IN IF st.currentHistoryIndex = -1 /\ len > 0
       THEN [st EXCEPT
                !.currentHistoryIndex = len - 1,
                !.currentContent = HistoryAt(st, len - 1).fullContent,
                !.currentTopicName = Some(HistoryAt(st, len - 1).topicName),
                !.isNavigating = TRUE]
       ELSE IF st.currentHistoryIndex > 0 /\ st.currentHistoryIndex - 1 < len
       THEN [st EXCEPT
                !.currentHistoryIndex = @ - 1,
                !.currentContent =
                    HistoryAt(st, st.currentHistoryIndex - 1).fullContent,
                !.currentTopicName =
                    Some(HistoryAt(st, st.currentHistoryIndex - 1).topicName)]
       ELSE st

\* navigateToPrevious
NavigateToPrevious == store' = AfterPrevious(store)

\* The branch below without the test of the completed flag.
MutStartsWhenComplete(st) ==
    LET len == Len(st.topicHistoryFull)
        index == st.currentHistoryIndex
    IN /\ ~(index >= 0 /\ index < len - 1)
       /\ index = len - 1 \/ index = -1
       /\ st.conceptProgress # None
       /\ ~Falsy(st.currentCourseId)
       /\ ~Falsy(st.currentSubjectName)
       /\ ~Falsy(st.currentConceptName)

\* The branch of navigateToNext that generates the next topic is taken.
StartsNextTopic(st) ==
    LET len == Len(st.topicHistoryFull)
        index == st.currentHistoryIndex
    IN /\ ~(index >= 0 /\ index < len - 1)
       /\ index = len - 1 \/ index = -1
       /\ st.conceptProgress # None
       /\ ~st.conceptProgress[1].completed
       /\ ~Falsy(st.currentCourseId)
       /\ ~Falsy(st.currentSubjectName)
       /\ ~Falsy(st.currentConceptName)

\* navigateToNext(userId), the user id given. text is what the generator will
\* send if a stream is started; startContentGeneration repeats the set() of
\* the cursor that precedes its call.
NavigateToNext(text) ==
    LET len == Len(store.topicHistoryFull)
        index == store.currentHistoryIndex
    IN IF index >= 0 /\ index < len - 1
       THEN /\ store' = [store EXCEPT
                            !.currentHistoryIndex = index + 1,
                            !.currentContent = HistoryAt(store, index + 1).fullContent,
                            !.currentTopicName =
                                Some(HistoryAt(store, index + 1).topicName)]
            /\ UNCHANGED streams
       ELSE IF StartsNextTopic(store)
       THEN StartContentGeneration(store.currentCourseId[1], store.currentSubjectName[1],
                                   store.currentConceptName, text)
       ELSE UNCHANGED <<store, streams>>

\* canNavigatePrevious
CanNavigatePrevious(st) ==
    Len(st.topicHistoryFull) > 0
        /\ (st.currentHistoryIndex = -1 \/ st.currentHistoryIndex > 0)

\* canNavigateNext
CanNavigateNext(st) ==
    IF st.currentHistoryIndex >= 0 THEN TRUE
    ELSE IF st.conceptProgress # None THEN ~st.conceptProgress[1].completed ELSE FALSE

----------------------------------------------------------------------------
(* ContentDisplay: which buttons are rendered and enabled.                 *)

Rendered(st) ==
    ~(st.currentContent = <<>> /\ ~st.isLoading /\ st.error = None /\ ~st.showCelebration)

Celebrating(st) ==
    st.showCelebration /\ st.conceptProgress # None /\ st.conceptProgress[1].completed

ActionButtonsShown(st) ==
    Rendered(st) /\ ~Celebrating(st) /\ ~st.isStreaming /\ st.currentContent # <<>>

MarkCompleteEnabled(st) ==
    ActionButtonsShown(st)
        /\ ~(st.isLoading \/ Falsy(st.currentTopicName) \/ st.isNavigating)

NavigationShown(st) ==
    Rendered(st) /\ ~Celebrating(st)
        /\ st.isNavigating /\ ~st.isStreaming /\ ~st.showCelebration

PreviousEnabled(st) == NavigationShown(st) /\ ~(~CanNavigatePrevious(st) \/ st.isLoading)

NextEnabled(st) ==
    NavigationShown(st) /\ ~(~CanNavigateNext(st) \/ st.isLoading \/ st.isStreaming)

----------------------------------------------------------------------------
(* Spec: one user studying one concept: streams of generated content, the  *)
(* buttons of ContentDisplay, and the server answering the completions.    *)

MaxStreams == 2

\* "TOPIC:Ab\nhi"
TextTopic == TOPIC \o Str_Ab \o NL \o Str_hi

SessionTexts == {TextTopic, TextPlain}

\* The number of characters a read delivers, the last read of a stream excepted.
ChunkSize == 6

Init ==
    /\ store = InitStore
    /\ streams = <<>>
    /\ InitOther

ConceptClick ==
    /\ Len(streams) < MaxStreams
    /\ \E c \in Concepts, text \in SessionTexts :
          StartContentGeneration(Course, Subject, Some(c), text)
    /\ UNCHANGED <<ledger, progress, requests, applied, chat, pstream>>
    /\ UNCHANGED profileStore

\* reader.read() resolves with the next ChunkSize characters, or with what is left.
SessionChunk ==
    /\ \E i \in 1..Len(streams) :
          \E n \in {ChunkSize, Len(streams[i].text) - streams[i].pos} :
              /\ n <= ChunkSize
              /\ StreamRead(i, n)
    /\ UNCHANGED <<ledger, progress, requests, applied, chat, pstream>>
    /\ UNCHANGED profileStore

ConceptSelect ==
    /\ \E c \in Concepts : SetCurrentConcept(c)
    /\ UNCHANGED <<streams, ledger, progress, requests, applied, chat, pstream>>
    /\ UNCHANGED profileStore

MarkCompleteClick ==
    /\ MarkCompleteEnabled(store)
    /\ Len(requests) < MaxInFlight
    /\ CompleteCurrentTopic
    /\ UNCHANGED <<streams, ledger, progress, applied, chat, pstream>>
    /\ UNCHANGED profileStore

MarkCompleteSucceeded ==
    /\ \E k \in 1..Len(requests) : CompleteSucceeded(k)
    /\ UNCHANGED <<streams, ledger, progress, applied, chat, pstream>>
    /\ UNCHANGED profileStore

MarkCompleteFailed ==
    /\ \E k \in 1..Len(requests) : CompleteFailed(k)
    /\ UNCHANGED <<streams, ledger, progress, applied, chat, pstream>>
    /\ UNCHANGED profileStore

\* The effect of ContentPage: the history of the concept is loaded when the
\* page is mounted with course, subject and concept set, and when one of them
\* changes. One load is in flight at a time.
HistoryEffect ==
    /\ \A k \in 1..Len(requests) : requests[k].pc \notin {"history", "topics"}
    /\ ~Falsy(store.currentCourseId)
    /\ ~Falsy(store.currentSubjectName)
    /\ ~Falsy(store.currentConceptName)
    /\ Len(requests) < MaxInFlight
    /\ LoadTopicHistory(store.currentCourseId[1], store.currentSubjectName[1],
                        store.currentConceptName[1])
    /\ UNCHANGED <<store, streams, ledger, progress, applied, chat, pstream>>
    /\ UNCHANGED profileStore

SrvHistory ==
    /\ \E k \in 1..Len(requests) : ServerHistory(k)
    /\ UNCHANGED <<store, streams, chat, pstream>>
    /\ UNCHANGED profileStore

HistoryArrived ==
    /\ \E k \in 1..Len(requests) : HistoryLoaded(k)
    /\ UNCHANGED <<streams, ledger, progress, applied, chat, pstream>>
    /\ UNCHANGED profileStore

HistoryLost ==
    /\ \E k \in 1..Len(requests) : HistoryFailed(k)
    /\ UNCHANGED <<streams, ledger, progress, applied, chat, pstream>>
    /\ UNCHANGED profileStore

ProgressBarTimer ==
    /\ HideProgressBar
    /\ UNCHANGED <<streams, ledger, progress, requests, applied, chat, pstream>>
    /\ UNCHANGED profileStore

ClearClick ==
    /\ ActionButtonsShown(store)
    /\ ClearCurrentContent
    /\ UNCHANGED <<streams, ledger, progress, requests, applied, chat, pstream>>
    /\ UNCHANGED profileStore

PreviousClick ==
    /\ PreviousEnabled(store)
    /\ NavigateToPrevious
    /\ UNCHANGED <<streams, ledger, progress, requests, applied, chat, pstream>>
    /\ UNCHANGED profileStore

NextClick ==
    /\ NextEnabled(store)
    /\ StartsNextTopic(store) => Len(streams) < MaxStreams
    /\ \E text \in SessionTexts : NavigateToNext(text)
    /\ UNCHANGED <<ledger, progress, requests, applied, chat, pstream>>
    /\ UNCHANGED profileStore

Next ==
    \/ ConceptClick \/ ConceptSelect
    \/ SessionChunk \/ StreamDone \/ StreamError
    \/ MarkCompleteClick \/ MarkCompleteSucceeded \/ MarkCompleteFailed
    \/ SrvReceive \/ SrvCommit \/ SrvUpdate
    \/ ProgressBarTimer \/ ClearClick \/ PreviousClick \/ NextClick
    \/ HistoryEffect \/ SrvHistory \/ HistoryArrived \/ HistoryLost

Spec == Init /\ [][Next]_vars

----------------------------------------------------------------------------
(* Claims about completing the content of a stream.                        *)

\* The stream failed before its end, after some of its text had arrived.
FailedPartial(s) == s.pc = "failed" /\ s.pos < Len(s.text) /\ s.fullContent # <<>>

\* C3: the partial content of a stream that failed before its end is never the
\* content of a markTopicComplete request, nor of a row of the ledger.
C3_NoPartialCommit ==
    \A i \in 1..Len(streams) :
        FailedPartial(streams[i]) =>
            /\ \A k \in 1..Len(requests) : requests[k].fullContent # streams[i].fullContent
            /\ \A r \in 1..Len(ledger) : ledger[r].fullContent # streams[i].fullContent

\* The stream ended and its text has no TOPIC: marker.
EndedWithoutTopic(s) == s.pc = "done" /\ s.text # <<>> /\ ~Includes(s.text, TOPIC)

\* C4: when a stream without a TOPIC: marker ends, the store has no topic name
\* and has an error; and the content of such a stream is never the content of a
\* markTopicComplete request.
C4_MissingTopicIsError ==
    /\ [][\A i \in 1..Len(streams) :
            (streams[i].pc = "reading" /\ i \in 1..Len(streams')
                /\ EndedWithoutTopic(streams'[i]))
            => (Falsy(store'.currentTopicName) /\ store'.error # None)]_vars
    /\ [](\A i \in 1..Len(streams), k \in 1..Len(requests) :
            EndedWithoutTopic(streams[i]) => requests[k].fullContent # streams[i].text)

\* C6: no topic name occurs twice in topicHistoryFull or in topicHistory, and
\* the progress the store shows counts each topic of the history once.
C6_RepeatedCompleteIsNoOp ==
    /\ \A i, j \in 1..Len(store.topicHistoryFull) :
           store.topicHistoryFull[i].topicName = store.topicHistoryFull[j].topicName
               => i = j
    /\ \A i, j \in 1..Len(store.topicHistory) :
           store.topicHistory[i].topicName = store.topicHistory[j].topicName => i = j
    /\ store.conceptProgress # None =>
           store.conceptProgress[1].topicsCompleted <= Len(ledger)

----------------------------------------------------------------------------
(* streamLearningPlanQuery: the sentinel and the decoding of the payload.  *)

FINAL_PLAN == <<"F", "I", "N", "A", "L", "_", "P", "L", "A", "N">>

\* String.prototype.substring(a, b), a and b counted from 0: the arguments are
\* clamped to the length and swapped when a > b.
Substring(s, a, b) ==
    LET Clamp(x) == IF x < 0 THEN 0 ELSE IF x > Len(s) THEN Len(s) ELSE x
        lo == IF Clamp(a) <= Clamp(b) THEN Clamp(a) ELSE Clamp(b)
        hi == IF Clamp(a) <= Clamp(b) THEN Clamp(b) ELSE Clamp(a)
    IN SubSeq(s, lo + 1, hi)

\* The index after the JSON string that starts at s[i], 0 when s[i] does not
\* start one. Strings have no escapes in the texts of this model.
JsonStringEnd(s, i) ==
    IF i <= Len(s) /\ s[i] = "\"" /\ \E k \in (i + 1)..Len(s) : s[k] = "\""
    THEN 1 + CHOOSE k \in (i + 1)..Len(s) :
                 s[k] = "\"" /\ \A j \in (i + 1)..(k - 1) : s[j] # "\""
    ELSE 0

\* The index after the digits that start at s[i].
RECURSIVE JsonNumberEnd(_, _)
JsonNumberEnd(s, i) ==
    IF i <= Len(s) /\ s[i] \in Digits THEN JsonNumberEnd(s, i + 1) ELSE i

\* The index after the JSON value that starts at or after s[i], white space
\* skipped; 0 when there is no value there. Values are objects, strings and
\* unsigned integers.
RECURSIVE JsonValueEnd(_, _)
RECURSIVE JsonMembersEnd(_, _)
JsonValueEnd(s, i) ==
    LET j == SkipWS(s, i)
    IN IF j > Len(s) THEN 0
       ELSE IF s[j] \in Digits THEN JsonNumberEnd(s, j)
       ELSE IF s[j] = "\"" THEN JsonStringEnd(s, j)
       ELSE IF s[j] = "{"
            THEN LET k == SkipWS(s, j + 1)
                 IN IF k <= Len(s) /\ s[k] = "}" THEN k + 1 ELSE JsonMembersEnd(s, k)
       ELSE 0

\* The index after the "}" that closes the object whose next member starts at s[i].
JsonMembersEnd(s, i) ==
    LET k == JsonStringEnd(s, i)
        c == SkipWS(s, k)
        v == IF k # 0 /\ c <= Len(s) /\ s[c] = ":" THEN JsonValueEnd(s, c + 1) ELSE 0
        d == SkipWS(s, v)
    IN IF v = 0 \/ d > Len(s) THEN 0
       ELSE IF s[d] = "}" THEN d + 1
       ELSE IF s[d] = "," THEN JsonMembersEnd(s, SkipWS(s, d + 1))
       ELSE 0

\* Whether JSON.parse(s) returns rather than throws.
JsonParses(s) ==
    LET e == JsonValueEnd(s, 1) IN e # 0 /\ SkipWS(s, e) > Len(s)

\* a || b || "" on optional strings
OrElse(a, b) == IF ~Falsy(a) THEN a[1] ELSE IF ~Falsy(b) THEN b[1] ELSE <<>>

\* The plan streamLearningPlanQuery hands to onComplete: None when the response
\* has no sentinel, no braces after it, or JSON.parse throws.
ParsePlan(fullResponse, responsePlanId, planId) ==
    IF ~Includes(fullResponse, FINAL_PLAN) THEN None
    ELSE LET parts == Split(fullResponse, FINAL_PLAN)
             jsonPart == Trim(parts[2])
             startIdx == IndexOf(jsonPart, <<"{">>) - 1
             endIdx == LastIndexOf(jsonPart, <<"}">>)
             jsonStr == Substring(jsonPart, startIdx, endIdx)
         IN IF Len(parts) > 1 /\ startIdx # -1 /\ endIdx > 0 /\ JsonParses(jsonStr)
            THEN Some([ plan_id  |-> OrElse(responsePlanId, planId),
                        planData |-> jsonStr ])
            ELSE None

----------------------------------------------------------------------------
(* HomePage: handleLearningPlanQuery and the stores it writes.             *)

NewMessage(id, text, sender) ==
    [ id |-> id, text |-> text, sender |-> sender,
      isStreaming |-> FALSE, learningPlan |-> None ]

\* addMessage
AddMessage(messages, message) ==
    LET newMessages == Append(messages, message)
    IN IF Len(newMessages) > MaxMessages
       THEN SubSeq(newMessages, Len(newMessages) - MaxMessages + 1, Len(newMessages))
       ELSE newMessages

\* { ...msg, ...fields }
Spread(msg, fields) ==
    [f \in DOMAIN msg |-> IF f \in DOMAIN fields THEN fields[f] ELSE msg[f]]

\* state.messages.map(msg => msg.id === id ? { ...msg, ...fields } : msg)
MapMessage(messages, id, fields) ==
    [k \in 1..Len(messages) |->
        IF messages[k].id = id THEN Spread(messages[k], fields) ELSE messages[k]]

\* state.messages.map(msg => msg.id === id ? { ...msg, text: msg.text + chunk } : msg)
AppendToMessage(messages, id, chunk) ==
    [k \in 1..Len(messages) |->
        IF messages[k].id = id
        THEN Spread(messages[k], [text |-> messages[k].text \o chunk])
        ELSE messages[k]]

\* handleLearningPlanQuery up to its await: the user message, the typing flag
\* and the variables of the closure. text is what the server will have sent at
\* the end of the stream, responsePlanId its X-Plan-ID header.
StartPlanQuery(ch, query, text, responsePlanId) ==
    [ chat    |-> [ch EXCEPT
                      !.messages = AddMessage(@, NewMessage(ch.nextId, query, "user")),
                      !.isTyping = TRUE,
                      !.nextId = @ + 2],
      closure |-> [ pc                  |-> "reading",
                    text                |-> text,
                    pos                 |-> 0,
                    responsePlanId      |-> responsePlanId,
                    currentPlanId       |-> ch.currentPlanId,
                    messageId           |-> ch.nextId + 1,
                    isFirstChunk        |-> TRUE,
                    fullResponse        |-> <<>>,
                    finalPlanDetected   |-> FALSE,
                    textBeforeFinalPlan |-> <<>>,
                    parsedPlan          |-> None ] ]

MutSentinelSeenNever(finalPlanDetected, fullResponse) == FALSE

\* The test of onChunk for the first sighting of the sentinel.
SentinelSeen(finalPlanDetected, fullResponse) ==
    ~finalPlanDetected /\ Includes(fullResponse, FINAL_PLAN)

\* The onChunk callback of handleLearningPlanQuery.
OnPlanChunk(ch, cl, chunk) ==
    LET fullResponse == cl.fullResponse \o chunk
        textBeforeFinalPlan == Trim(Split(fullResponse, FINAL_PLAN)[1])
    IN IF SentinelSeen(cl.finalPlanDetected, fullResponse)
       THEN [ chat    |-> [ch EXCEPT !.messages =
                              MapMessage(@, cl.messageId,
                                         [text |-> textBeforeFinalPlan,
                                          isStreaming |-> TRUE])],
              closure |-> [cl EXCEPT !.fullResponse = fullResponse,
                                     !.finalPlanDetected = TRUE,
                                     !.textBeforeFinalPlan = textBeforeFinalPlan] ]
       ELSE IF ~cl.finalPlanDetected
       THEN IF cl.isFirstChunk
            THEN [ chat    |-> [ch EXCEPT !.messages =
                                   AddMessage(@, NewMessage(cl.messageId, chunk,
                                                            "assistant"))],
                   closure |-> [cl EXCEPT !.fullResponse = fullResponse,
                                          !.isFirstChunk = FALSE] ]
            ELSE [ chat    |-> [ch EXCEPT !.messages =
                                   AppendToMessage(@, cl.messageId, chunk)],
                   closure |-> [cl EXCEPT !.fullResponse = fullResponse] ]
       ELSE [ chat |-> ch, closure |-> [cl EXCEPT !.fullResponse = fullResponse] ]

\* "Error: ", which onError puts before the message of the error
ErrorPrefix == <<"E", "r", "r", "o", "r", ":", " ">>

\* "Request failed: ", the message of the error streamLearningPlanQuery throws
RequestFailed ==
    <<"R", "e", "q", "u", "e", "s", "t", " ", "f", "a", "i", "l", "e", "d", ":", " ">>

\* The onError callback of handleLearningPlanQuery.
OnPlanError(ch, message) ==
    [ch EXCEPT
        !.messages = AddMessage(@, NewMessage(ch.nextId, ErrorPrefix \o message,
                                              "assistant")),
        !.nextId = @ + 1,
        !.isTyping = FALSE,
        !.currentPlanId = None]

\* onComplete that adopts the plan and leaves the mode and the plan id.
MutOnPlanCompleteKeepsMode(ch, cl, planId, plan) ==
    LET c1 == [ch EXCEPT !.isTyping = FALSE]
        c2 == IF planId # <<>> /\ Falsy(cl.currentPlanId)
              THEN [c1 EXCEPT !.currentPlanId = Some(planId)] ELSE c1
    IN IF Includes(cl.fullResponse, FINAL_PLAN)
       THEN [c2 EXCEPT
                !.messages = MapMessage(@, cl.messageId,
                                        [text |-> cl.textBeforeFinalPlan,
                                         learningPlan |-> plan,
                                         isStreaming |-> FALSE]),
                !.plans = IF plan # None THEN Append(@, plan[1]) ELSE @]
       ELSE c2

\* The effect of HomePage on isCreatingLearningPlan and currentPlanId: outside
\* learning-plan mode a stored plan id is cleared.
PlanIdEffect(ch) ==
    IF ~ch.isCreatingLearningPlan /\ ch.currentPlanId # None
    THEN [ch EXCEPT !.currentPlanId = None]
    ELSE ch

\* The onComplete callback of handleLearningPlanQuery; planId is "" when the
\* response had no X-Plan-ID header.
OnPlanComplete(ch, cl, planId, plan) ==
    LET c1 == [ch EXCEPT !.isTyping = FALSE]
        c2 == IF planId # <<>> /\ Falsy(cl.currentPlanId)
              THEN [c1 EXCEPT !.currentPlanId = Some(planId)] ELSE c1
        conversationalText ==
            IF cl.textBeforeFinalPlan # <<>> THEN cl.textBeforeFinalPlan
            ELSE Trim(Split(cl.fullResponse, FINAL_PLAN)[1])
    IN IF Includes(cl.fullResponse, FINAL_PLAN)
       THEN [c2 EXCEPT
                !.messages = MapMessage(@, cl.messageId,
                                        [text |-> conversationalText,
                                         learningPlan |-> plan,
                                         isStreaming |-> FALSE]),
                !.plans = IF plan # None THEN Append(@, plan[1]) ELSE @,
                !.isCreatingLearningPlan = FALSE,
                !.currentPlanId = None]
       ELSE c2

----------------------------------------------------------------------------
(* SpecPlan: conversations in learning-plan mode, each response cut into   *)
(* chunks in every possible way.                                           *)

MaxQueries == 2

Query == <<"q">>
PlanIds == {<<"p">>}

\* "Hi?": a question of the assistant, no sentinel
PlanAsk == <<"H", "i", "?">>
\* "Ok FINAL_PLAN{}"
PlanFinal == <<"O", "k", " ">> \o FINAL_PLAN \o <<"{", "}">>
\* "A FINAL_PLAN{}FINAL_PLAN": the sentinel a second time, after the payload
PlanTwice == <<"A", " ">> \o FINAL_PLAN \o <<"{", "}">> \o FINAL_PLAN
\* "B FINAL_PLAN{": a payload JSON.parse rejects
PlanBad == <<"B", " ">> \o FINAL_PLAN \o <<"{">>

\* "FINAL_PLAN{"FINAL_PLAN":1}": the sentinel at the start and inside the payload
PlanInside ==
    FINAL_PLAN \o <<"{", "\"">> \o FINAL_PLAN \o <<"\"", ":", "1", "}">>

PlanTexts == {PlanAsk, PlanFinal, PlanTwice, PlanBad, PlanInside}

InitPlan ==
    /\ store = InitStore
    /\ streams = <<>>
    /\ InitOther

\* "Create learning plan" of the sidebar
PlanModeOn ==
    /\ ~chat.isCreatingLearningPlan
    /\ chat' = [chat EXCEPT !.isCreatingLearningPlan = TRUE]
    /\ UNCHANGED <<store, streams, ledger, progress, requests, applied, pstream>>
    /\ UNCHANGED profileStore

\* The search box leaves learning-plan mode; the effect of HomePage then clears
\* currentPlanId.
PlanModeOff ==
    /\ chat.isCreatingLearningPlan
    /\ chat' = [chat EXCEPT !.isCreatingLearningPlan = FALSE, !.currentPlanId = None]
    /\ UNCHANGED <<store, streams, ledger, progress, requests, applied, pstream>>
    /\ UNCHANGED profileStore

UserMessages(ch) == SelectSeq(ch.messages, LAMBDA msg : msg.sender = "user")

\* handleQuerySubmit in learning-plan mode
PlanSubmit ==
    /\ chat.isCreatingLearningPlan
    /\ IF pstream = None THEN TRUE ELSE pstream.pc # "reading"
    /\ Len(UserMessages(chat)) < MaxQueries
    /\ \E text \in PlanTexts, responsePlanId \in {None} \cup {Some(id) : id \in PlanIds} :
          LET started == StartPlanQuery(chat, Query, text, responsePlanId)
          IN /\ chat' = started.chat
             /\ pstream' = started.closure
    /\ UNCHANGED <<store, streams, ledger, progress, requests, applied>>
    /\ UNCHANGED profileStore

\* One iteration of the read loop of streamLearningPlanQuery.
PlanChunk ==
    /\ pstream # None
    /\ pstream.pc = "reading"
    /\ \E n \in 1..(Len(pstream.text) - pstream.pos) :
          LET chunk == SubSeq(pstream.text, pstream.pos + 1, pstream.pos + n)
              after == OnPlanChunk(chat, pstream, chunk)
          IN /\ chat' = after.chat
             /\ pstream' = [after.closure EXCEPT !.pos = pstream.pos + n]
    /\ UNCHANGED <<store, streams, ledger, progress, requests, applied>>
    /\ UNCHANGED profileStore

\* reader.read() reports done: the payload is decoded and onComplete is called.
\* The response accumulated by streamLearningPlanQuery is that of the closure.
PlanDone ==
    /\ pstream # None
    /\ pstream.pc = "reading"
    /\ pstream.pos = Len(pstream.text)
    /\ LET parsedPlan == ParsePlan(pstream.fullResponse, pstream.responsePlanId,
                                   pstream.currentPlanId)
       IN /\ chat' = PlanIdEffect(OnPlanComplete(chat, pstream,
                                                 OrElse(pstream.responsePlanId, None),
                                                 parsedPlan))
          /\ pstream' = [pstream EXCEPT !.pc = "done", !.parsedPlan = parsedPlan]
    /\ UNCHANGED <<store, streams, ledger, progress, requests, applied>>
    /\ UNCHANGED profileStore

\* fetch rejects, the response is not ok, or reader.read() rejects.
PlanError ==
    /\ pstream # None
    /\ pstream.pc = "reading"
    /\ chat' = OnPlanError(chat, RequestFailed)
    /\ pstream' = [pstream EXCEPT !.pc = "failed"]
    /\ UNCHANGED <<store, streams, ledger, progress, requests, applied>>
    /\ UNCHANGED profileStore

NextPlan == PlanModeOn \/ PlanModeOff \/ PlanSubmit \/ PlanChunk \/ PlanDone \/ PlanError

SpecPlan == InitPlan /\ [][NextPlan]_vars

----------------------------------------------------------------------------
(* Claims about the plan conversation.                                     *)

\* The messages of the list that carry the id of the running call.
PlanMessages(ch, id) == SelectSeq(ch.messages, LAMBDA msg : msg.id = id)

\* The trimmed text before the first occurrence of the sentinel.
BeforeSentinel(text) == Trim(Split(text, FINAL_PLAN)[1])

\* What may be shown of a response: all of it when it has no sentinel, and
\* otherwise what precedes the last character of the first sentinel.
Showable(text) ==
    IF Includes(text, FINAL_PLAN)
    THEN SubSeq(text, 1, IndexOf(text, FINAL_PLAN) + Len(FINAL_PLAN) - 2)
    ELSE text

IsPrefix(a, b) == Len(a) <= Len(b) /\ a = SubSeq(b, 1, Len(a))

\* C9: when a response with the sentinel has ended, the list has the assistant
\* message of that call and its text is the trimmed text before the sentinel,
\* however the response was cut into chunks.
C9_PreSentinelIsFinalMessage ==
    (pstream # None /\ pstream.pc = "done" /\ Includes(pstream.text, FINAL_PLAN)) =>
        LET shown == PlanMessages(chat, pstream.messageId)
        IN Len(shown) = 1 /\ shown[1].text = BeforeSentinel(pstream.text)

\* C10: the text of the assistant message of the running call is always a
\* prefix of what precedes the end of the first sentinel, or the trimmed text
\* before the sentinel; and once the sentinel has been detected, no step of that
\* call changes the text or clears finalPlanDetected.
C10_PayloadNeverShown ==
    /\ [](pstream # None =>
            \A k \in 1..Len(PlanMessages(chat, pstream.messageId)) :
                LET text == PlanMessages(chat, pstream.messageId)[k].text
                IN \/ IsPrefix(text, Showable(pstream.text))
                   \/ text = BeforeSentinel(pstream.text))
    /\ [][(/\ pstream # None
           /\ pstream.finalPlanDetected
           /\ pstream' # None
           /\ pstream'.messageId = pstream.messageId)
          => /\ pstream'.finalPlanDetected
             /\ Len(PlanMessages(chat', pstream.messageId))
                    = Len(PlanMessages(chat, pstream.messageId))
             /\ \A k \in 1..Len(PlanMessages(chat, pstream.messageId)) :
                    PlanMessages(chat', pstream.messageId)[k].text
                        = PlanMessages(chat, pstream.messageId)[k].text]_vars

\* The sentinel has been detected, all of the payload has arrived, and the
\* message shows the text before the sentinel with its loading flag.
C10_Witness ==
    /\ pstream # None
    /\ pstream.text = PlanFinal
    /\ pstream.pc = "reading"
    /\ pstream.finalPlanDetected
    /\ pstream.pos = Len(pstream.text)
    /\ Len(PlanMessages(chat, pstream.messageId)) = 1
    /\ PlanMessages(chat, pstream.messageId)[1].text = <<"O", "k">>
    /\ PlanMessages(chat, pstream.messageId)[1].isStreaming

\* All the text after the first occurrence of the sentinel.
AfterSentinel(text) ==
    SubSeq(text, IndexOf(text, FINAL_PLAN) + Len(FINAL_PLAN), Len(text))

\* From the first "{" to the last "}" of s; empty when s lacks one of them or
\* the last "}" precedes the first "{".
Braced(s) ==
    IF IndexOf(s, <<"{">>) # 0 /\ LastIndexOf(s, <<"}">>) >= IndexOf(s, <<"{">>)
    THEN SubSeq(s, IndexOf(s, <<"{">>), LastIndexOf(s, <<"}">>))
    ELSE <<>>

\* C11: when a response with the sentinel has ended, the plan handed to
\* onComplete is decoded from the first "{" to the last "}" of all the text
\* after the first sentinel: it is that substring when the substring decodes,
\* and there is no plan when it does not.
C11_PayloadAfterFirstSentinel ==
    (pstream # None /\ pstream.pc = "done" /\ Includes(pstream.text, FINAL_PLAN)) =>
        IF JsonParses(Braced(AfterSentinel(pstream.text)))
        THEN /\ pstream.parsedPlan # None
             /\ pstream.parsedPlan[1].planData = Braced(AfterSentinel(pstream.text))
        ELSE pstream.parsedPlan = None

\* The messages by which onError reports a failure.
ErrorMessages(ch) ==
    SelectSeq(ch.messages,
              LAMBDA msg : msg.sender = "assistant" /\ StartsAt(msg.text, ErrorPrefix, 1))

\* C12: when a response ends after the sentinel and no plan could be decoded,
\* that step adds no plan to the plan store, leaves the assistant message of
\* the call with the trimmed text before the sentinel, and reports an error.
C12_DecodeFailureReported ==
    [][(/\ pstream # None
        /\ pstream.pc = "reading"
        /\ pstream' # None
        /\ pstream'.pc = "done"
        /\ Includes(pstream'.fullResponse, FINAL_PLAN)
        /\ pstream'.parsedPlan = None)
       => /\ chat'.plans = chat.plans
          /\ \A k \in 1..Len(PlanMessages(chat', pstream.messageId)) :
                 PlanMessages(chat', pstream.messageId)[k].text
                     = BeforeSentinel(pstream'.fullResponse)
          /\ Len(ErrorMessages(chat')) > Len(ErrorMessages(chat))]_vars

----------------------------------------------------------------------------
(* SpecReturn: the session of Spec, of a user who completed topics of the  *)
(* concept in earlier sessions.                                            *)

\* The rows earlier sessions left in the ledger: two topics of a concept that
\* is not complete, and that the next completion completes.
PriorRow(topicName, depthIncrement) ==
    [ conceptName    |-> CHOOSE c \in Concepts : TRUE,
      topicName      |-> topicName,
      depthIncrement |-> depthIncrement,
      fullContent    |-> topicName ]

PriorLedgers ==
    { <<PriorRow(<<"t", "1">>, 3), PriorRow(<<"t", "2">>, 3)>> }

\* The progress record after the completions of rows, applied in order.
RECURSIVE ProgressAfter(_, _)
ProgressAfter(p, rows) ==
    IF rows = <<>> THEN p
    ELSE ProgressAfter(ApplyCompletion(p, Head(rows).topicName, Head(rows).depthIncrement),
                       Tail(rows))

InitReturn ==
    /\ profileStore = InitProfileStore
    /\ store = InitStore
    /\ streams = <<>>
    /\ requests = <<>>
    /\ chat = InitChat
    /\ pstream = None
    /\ ledger \in PriorLedgers
    /\ applied = [k \in 1..Len(ledger) |->
                     [ conceptName    |-> ledger[k].conceptName,
                       topicName      |-> ledger[k].topicName,
                       depthIncrement |-> ledger[k].depthIncrement ]]
    /\ progress = [c \in Concepts |->
                      Some(ProgressAfter(NewProgress(PlanTargetDepth), ledger))]

\* setShowCelebration
SetShowCelebration(show) ==
    store' = [store EXCEPT !.showCelebration = show]

\* The celebration screen is what ContentDisplay renders.
CelebrationShown(st) == Rendered(st) /\ Celebrating(st)

\* onReviewConcept of the celebration screen.
ReviewConceptClick ==
    /\ CelebrationShown(store)
    /\ SetShowCelebration(FALSE)
    /\ UNCHANGED <<streams, ledger, progress, requests, applied, chat, pstream>>
    /\ UNCHANGED profileStore

\* onNextConcept of the celebration screen: setShowCelebration(false), then
\* clearCurrentContent().
NextConceptClick ==
    /\ CelebrationShown(store)
    /\ store' = [store EXCEPT
                    !.showCelebration = FALSE,
                    !.currentContent = <<>>,
                    !.currentTopicName = None,
                    !.currentSubjectName = None,
                    !.currentCourseId = None,
                    !.isStreaming = FALSE,
                    !.isLoading = FALSE,
                    !.error = None]
    /\ UNCHANGED <<streams, ledger, progress, requests, applied, chat, pstream>>
    /\ UNCHANGED profileStore

\* The persistence layer fails before the request has written anything: the
\* response is not ok.
ServerFail(k) ==
    /\ k \in 1..Len(requests)
    /\ requests[k].pc \in {"sent", "insert"}
    /\ requests' = [requests EXCEPT ![k].pc = "respond", ![k].ok = FALSE]
    /\ UNCHANGED <<ledger, progress, applied>>

SrvFail ==
    /\ \E k \in 1..Len(requests) : ServerFail(k)
    /\ UNCHANGED <<store, streams, chat, pstream>>
    /\ UNCHANGED profileStore

NextReturn ==
    \/ Next
    \/ ReviewConceptClick
    \/ NextConceptClick
    \/ SrvFail

SpecReturn == InitReturn /\ [][NextReturn]_vars

----------------------------------------------------------------------------
(* Claims about the cursor of the history.                                 *)

\* C13: currentHistoryIndex is -1 or a position of topicHistoryFull.
C13_CursorInRange ==
    \/ store.currentHistoryIndex = -1
    \/ /\ store.currentHistoryIndex >= 0
       /\ store.currentHistoryIndex < Len(store.topicHistoryFull)

\* The concept on display is complete on the server.
ConceptComplete ==
    LET c == store.currentConceptName
    IN IF Falsy(c) THEN FALSE
       ELSE IF progress[c[1]] = None THEN FALSE
       ELSE progress[c[1]][1].completed

\* The cursor is on the last topic of the list or on the live generation.
AtFrontier(st) ==
    \/ st.currentHistoryIndex = -1
    \/ st.currentHistoryIndex = Len(st.topicHistoryFull) - 1

\* C14: whenever the Next button can be pressed with the cursor on the last
\* topic of the list or on the live generation, and the concept on display is
\* not complete, navigateToNext starts a stream, also when no completion has
\* been made in the session.
C14_NextStartsStream ==
    ( /\ NextEnabled(store)
      /\ AtFrontier(store)
      /\ ~Falsy(store.currentCourseId)
      /\ ~Falsy(store.currentSubjectName)
      /\ ~Falsy(store.currentConceptName)
      /\ ~ConceptComplete )
        => StartsNextTopic(store)

\* The store holds a progress record that says the concept is complete.
KnownComplete(st) ==
    IF st.conceptProgress = None THEN FALSE ELSE st.conceptProgress[1].completed

C16_PreviousTransition ==
    LET after == AfterPrevious(store)
        index == store.currentHistoryIndex
        len   == Len(store.topicHistoryFull)
    IN IF index = -1 /\ len > 0 THEN after.currentHistoryIndex = len - 1
       ELSE IF index > 0 /\ index < len THEN after.currentHistoryIndex = index - 1
       ELSE /\ after.currentHistoryIndex = index
            /\ after.currentContent = store.currentContent
            /\ after.currentTopicName = store.currentTopicName

\* The cursor was moved back from the last topic of a list of two or more.
C16_Witness ==
    /\ store.currentHistoryIndex >= 0
    /\ store.currentHistoryIndex < Len(store.topicHistoryFull) - 1
    /\ store.currentContent = HistoryAt(store, store.currentHistoryIndex).fullContent

----------------------------------------------------------------------------
(* Claims about what a content stream reports at its end.                  *)

\* C17: the depth increment a stream gives to onComplete, and the depth the
\* store then holds for the completion request, is 1, 2 or 3.
C17_DepthIncrementInRange ==
    \A i \in 1..Len(streams) :
        streams[i].pc = "done"
            => /\ streams[i].depthIncrement \in {1, 2, 3}
               /\ store.currentTopicDepth \in {1, 2, 3}

\* The lines of text that contain TOPIC:, by their positions.
TopicLines(text) ==
    {k \in 1..Len(Split(text, NL)) : Includes(Split(text, NL)[k], TOPIC)}

\* The text that follows TOPIC: on the first line of text that contains it,
\* trimmed of whitespace.
FirstTopicText(text) ==
    LET lines == Split(text, NL)
        k     == CHOOSE j \in TopicLines(text) : \A m \in TopicLines(text) : j <= m
        line  == lines[k]
    IN Trim(SubSeq(line, IndexOf(line, TOPIC) + Len(TOPIC), Len(line)))

\* C18: at the end of a stream whose text has two or more lines with TOPIC:,
\* the topic name given to onComplete is the trimmed text that follows TOPIC:
\* on the first of these lines, however the text was cut into chunks.
C18_FirstTopicWins ==
    \A i \in 1..Len(streams) :
        (streams[i].pc = "done" /\ Cardinality(TopicLines(streams[i].text)) >= 2)
            => streams[i].topicName = Some(FirstTopicText(streams[i].text))

----------------------------------------------------------------------------
(* Claims about a completion that fails.                                   *)

\* The fields of the store a completion writes when it succeeds.
CompletionFields(st) ==
    <<st.topicHistoryFull, st.topicHistory, st.conceptProgress, st.completionStats,
      st.currentHistoryIndex, st.isNavigating, st.showCelebration>>

----------------------------------------------------------------------------
(* SpecApply: the progress record of one concept under a sequence of        *)
(* completions, for every target depth of a plan.                          *)

MaxTargetDepth == 8
MaxCompletions == 5

\* The names of the topics the generator proposes, in order.
TopicNames ==
    [n \in 1..9 |-> <<"t", <<"1", "2", "3", "4", "5", "6", "7", "8", "9">>[n]>>]

InitApply ==
    /\ profileStore = InitProfileStore
    /\ store = InitStore
    /\ streams = <<>>
    /\ requests = <<>>
    /\ chat = InitChat
    /\ pstream = None
    /\ ledger = <<>>
    /\ applied = <<>>
    /\ \E targetDepth \in 1..MaxTargetDepth :
           progress = [c \in Concepts |-> Some(NewProgress(targetDepth))]

\* A completion is committed: the next topic, or a topic that has a row already.
\* Only a new row is followed by applyCompletion.
CompleteTopic ==
    /\ \E c \in Concepts, n \in 1..MaxCompletions, depthIncrement \in 1..3 :
          /\ n <= Len(ledger) + 1
          /\ ValidIncrement(depthIncrement)
          /\ LET row == [ conceptName    |-> c,
                          topicName      |-> TopicNames[n],
                          depthIncrement |-> depthIncrement,
                          fullContent    |-> TopicNames[n] ]
             IN IF RowExists(ledger, c, TopicNames[n])
                THEN UNCHANGED <<ledger, progress, applied>>
                ELSE /\ ledger' = Append(ledger, row)
                     /\ progress' = [progress EXCEPT ![c] =
                                        Some(ApplyCompletion(progress[c][1], TopicNames[n],
                                                             depthIncrement))]
                     /\ applied' = Append(applied, [conceptName    |-> c,
                                                    topicName      |-> TopicNames[n],
                                                    depthIncrement |-> depthIncrement])
    /\ UNCHANGED <<store, streams, requests, chat, pstream>>
    /\ UNCHANGED profileStore

NextApply == CompleteTopic

SpecApply == InitApply /\ [][NextApply]_vars

\* The increments of the completions applied so far, in order, and their sum.
Increments == [k \in 1..Len(applied) |-> applied[k].depthIncrement]

RECURSIVE SumOf(_)
SumOf(seq) == IF seq = <<>> THEN 0 ELSE Head(seq) + SumOf(Tail(seq))

\* C20: every first completion of a topic adds its depthIncrement to
\* currentDepth, adds 1 to topicsCompleted and sets lastTopicName; with the
\* increments 2, 2, 2, 1 and targetDepth 7 the record has currentDepth 7,
\* topicsCompleted 4 and is completed after the fourth and not after the third;
\* a fifth topic with increment 1 gives currentDepth 8 and topicsCompleted 5.
C20_ApplyCompletionArithmetic ==
    /\ [][\A c \in Concepts :
            Len(applied') = Len(applied) + 1
                => LET new == applied'[Len(applied')]
                   IN /\ progress'[c][1].currentDepth
                            = progress[c][1].currentDepth + new.depthIncrement
                      /\ progress'[c][1].topicsCompleted
                            = progress[c][1].topicsCompleted + 1
                      /\ progress'[c][1].lastTopicName = Some(new.topicName)]_vars
    /\ [](\A c \in Concepts :
            LET p == progress[c][1]
            IN /\ p.currentDepth = SumOf(Increments)
               /\ p.topicsCompleted = Len(applied)
               /\ p.targetDepth = 7 =>
                     /\ Increments = <<2, 2, 2>> => (p.currentDepth = 6 /\ ~p.completed)
                     /\ Increments = <<2, 2, 2, 1>>
                           => (p.currentDepth = 7 /\ p.topicsCompleted = 4 /\ p.completed)
                     /\ Increments = <<2, 2, 2, 1, 1>>
                           => (p.currentDepth = 8 /\ p.topicsCompleted = 5))

\* The fourth completion of the example has been applied.
C20_Witness ==
    \E c \in Concepts :
        /\ progress[c] # None
        /\ progress[c][1].targetDepth = 7
        /\ Increments = <<2, 2, 2, 1>>
        /\ progress[c][1].completed

----------------------------------------------------------------------------
(* SpecStreamFair: the content stream of SpecStream. The client runs its    *)
(* own code whenever it can: the end of the loop is taken when read()       *)
(* reports done. The network owes nothing: a chunk, the end of the body or  *)
(* a rejection may never come.                                             *)

SpecStreamFair == InitStream /\ [][NextStream]_vars /\ WF_vars(StreamDone)

\* The call of streamContentGeneration awaits a read.
StreamWaiting ==
    IF Len(streams) = 0 THEN FALSE ELSE streams[1].pc = "reading"

\* The store shows that the stream is over.
StreamReleased == ~store.isStreaming /\ ~store.isLoading

\* C21: a content stream that awaits a read is in the end over for the store:
\* isStreaming and isLoading become false, also when no chunk, end or rejection
\* comes from the network any more.
C21_StalledStreamFails == StreamWaiting ~> StreamReleased

----------------------------------------------------------------------------
(* Claims about the end of a plan conversation.                            *)

\* The step is the end of the response of the plan conversation.
PlanEnds ==
    IF pstream = None THEN FALSE
    ELSE pstream.pc = "reading" /\ pstream'.pc = "done"

\* C22: the list of plans grows by one plan at the end of a response that has
\* the sentinel and a payload that was decoded, and at no other step; the end
\* of a response with the sentinel leaves learning-plan mode and clears the
\* plan id; the end of a response without it leaves the mode as it is, and in
\* learning-plan mode the plan id of the conversation is stored for the next turn.
C22_PlanAdoptionFollowsSentinel ==
    [][ /\ Len(chat'.plans)
             = Len(chat.plans)
                 + (IF PlanEnds /\ Includes(pstream.fullResponse, FINAL_PLAN)
                       /\ pstream'.parsedPlan # None
                    THEN 1 ELSE 0)
        /\ (PlanEnds /\ Includes(pstream.fullResponse, FINAL_PLAN))
              => (~chat'.isCreatingLearningPlan /\ chat'.currentPlanId = None)
        /\ (PlanEnds /\ ~Includes(pstream.fullResponse, FINAL_PLAN))
              => /\ chat'.isCreatingLearningPlan = chat.isCreatingLearningPlan
                 /\ ( /\ chat.isCreatingLearningPlan
                      /\ chat.currentPlanId = pstream.currentPlanId
                      /\ (chat.currentPlanId # None \/ pstream.responsePlanId # None) )
                        => chat'.currentPlanId # None ]_vars

\* A response with the sentinel has ended and its plan is the one plan of the list.
C22_Witness ==
    IF pstream = None THEN FALSE
    ELSE /\ pstream.pc = "done"
         /\ pstream.parsedPlan # None
         /\ Len(chat.plans) = 1
         /\ ~chat.isCreatingLearningPlan
         /\ chat.currentPlanId = None

----------------------------------------------------------------------------
(* The profile store (useProfileStore): validation, saveProfileData and    *)
(* updateProfileData. A date of birth is its year; "" is a missing one.    *)

\* The year of new Date() in validateProfile.
ThisYear == 2026

\* validateProfile: the errors, in the order they are pushed.
ValidateProfile(profileData) ==
    LET username == Trim(profileData.username)
        usernameErrors ==
            IF Len(username) = 0 THEN <<"Username is required">>
            ELSE IF Len(username) < 2 THEN <<"Username must be at least 2 characters">>
            ELSE IF Len(username) > 50 THEN <<"Username must be less than 50 characters">>
            ELSE <<>>
        age == ThisYear - profileData.dateOfBirth[1]
        dateErrors ==
            IF profileData.dateOfBirth = None THEN <<"Date of birth is required">>
            ELSE IF profileData.dateOfBirth[1] > ThisYear
                 THEN <<"Date of birth cannot be in the future">>
            ELSE IF age < 13 THEN <<"You must be at least 13 years old">>
            ELSE IF age > 120 THEN <<"Invalid date of birth">>
            ELSE <<>>
        countryErrors ==
            IF Len(Trim(profileData.country)) = 0 THEN <<"Country is required">>
            ELSE IF Len(Trim(profileData.country)) < 2
                 THEN <<"Country name must be at least 2 characters">>
            ELSE <<>>
        educationErrors ==
            IF Len(Trim(profileData.education)) = 0 THEN <<"Education is required">> ELSE <<>>
        motherTongueErrors ==
            IF Len(Trim(profileData.motherTongue)) = 0
            THEN <<"Mother tongue is required">> ELSE <<>>
        genderErrors ==
            IF profileData.gender = "" THEN <<"Gender is required">>
            ELSE IF profileData.gender \notin {"Male", "Female", "Others"}
                 THEN <<"Invalid gender selection">>
            ELSE <<>>
        learningPaceErrors ==
            IF profileData.learningPace = "" THEN <<"Learning pace is required">>
            ELSE IF profileData.learningPace \notin {"Low", "Medium", "High"}
                 THEN <<"Invalid learning pace selection">>
            ELSE <<>>
    IN usernameErrors \o dateErrors \o countryErrors \o educationErrors
           \o motherTongueErrors \o genderErrors \o learningPaceErrors

\* The default message of the action, when the API gives none.
FailedToSave(kind) ==
    IF kind = "save" THEN "Failed to save profile" ELSE "Failed to update profile"

\* saveProfileData / updateProfileData up to the await: an invalid profile
\* returns at once with the joined errors, a valid one calls the API.
StartProfileCall(ps, kind, profileData) ==
    LET errors == ValidateProfile(profileData)
    IN IF errors # <<>>
       THEN [ps EXCEPT
                !.error = Some(errors),
                !.call = Some([ kind      |-> kind,
                                data      |-> profileData,
                                apiCalled |-> FALSE,
                                pc        |-> "returned",
                                success   |-> FALSE,
                                error     |-> Some(errors) ])]
       ELSE [ps EXCEPT
                !.isSaving = TRUE,
                !.error = None,
                !.call = Some([ kind      |-> kind,
                                data      |-> profileData,
                                apiCalled |-> TRUE,
                                pc        |-> "pending",
                                success   |-> FALSE,
                                error     |-> None ])]

\* The action after the API resolved, not clearing isSaving after an error result.
MutProfileCallResolvedStaysSaving(ps, result) ==
    LET call == ps.call[1]
    IN IF result.success /\ result.data # None
       THEN [ps EXCEPT
                !.profile = result.data,
                !.isSaving = FALSE,
                !.error = None,
                !.call = Some([call EXCEPT !.pc = "returned", !.success = TRUE])]
       ELSE [ps EXCEPT
                !.error = IF result.error # None THEN result.error
                          ELSE Some(FailedToSave(call.kind)),
                !.call = Some([call EXCEPT !.pc = "returned", !.error = result.error])]

\* The action after its await, the API promise resolved with result.
ProfileCallResolved(ps, result) ==
    LET call == ps.call[1]
    IN IF result.success /\ result.data # None
       THEN [ps EXCEPT
                !.profile = result.data,
                !.isSaving = FALSE,
                !.error = None,
                !.call = Some([call EXCEPT !.pc = "returned", !.success = TRUE])]
       ELSE [ps EXCEPT
                !.isSaving = FALSE,
                !.error = IF result.error # None THEN result.error
                          ELSE Some(FailedToSave(call.kind)),
                !.call = Some([call EXCEPT !.pc = "returned", !.error = result.error])]

\* The action after its await, the API promise rejected: the catch block.
ProfileCallRejected(ps, message) ==
    LET call == ps.call[1]
    IN [ps EXCEPT
           !.isSaving = FALSE,
           !.error = Some(IF message = "" THEN FailedToSave(call.kind) ELSE message),
           !.call = Some([call EXCEPT
                             !.pc = "returned",
                             !.error = Some(IF message = "" THEN FailedToSave(call.kind)
                                            ELSE message)])]

----------------------------------------------------------------------------
(* SpecProfile: saveProfileData and updateProfileData called one after the *)
(* other, with every outcome of the API.                                   *)

\* createValidProfile of the tests
ValidProfile ==
    [ username     |-> <<"a", "b">>,
      dateOfBirth  |-> Some(2000),
      country      |-> <<"U", "S">>,
      education    |-> <<"B", "S">>,
      motherTongue |-> <<"E", "n">>,
      gender       |-> "Male",
      learningPace |-> "Medium" ]

Profiles ==
    { ValidProfile,
      [ValidProfile EXCEPT !.username = <<"u", "p", "d">>, !.learningPace = "High"],
      [ValidProfile EXCEPT !.gender = "Others", !.learningPace = "Low"],
      [ValidProfile EXCEPT !.username = <<>>],
      [ValidProfile EXCEPT !.username = <<" ", "a", " ">>],
      [ValidProfile EXCEPT !.dateOfBirth = None],
      [ValidProfile EXCEPT !.dateOfBirth = Some(ThisYear - 12)],
      [ValidProfile EXCEPT !.dateOfBirth = Some(ThisYear + 1), !.country = <<"U">>],
      [ValidProfile EXCEPT !.gender = "Invalid"],
      [ValidProfile EXCEPT !.learningPace = "", !.education = <<" ">>] }

\* What saveProfile / updateProfile of profileApis resolve with.
ApiResults(profileData) ==
    { [success |-> TRUE,  data |-> Some(profileData), error |-> None],
      [success |-> TRUE,  data |-> None,              error |-> None],
      [success |-> FALSE, data |-> None,              error |-> Some("Server error")],
      [success |-> FALSE, data |-> None,              error |-> None] }

ApiMessages == {"Network request failed", ""}

InitProfile ==
    /\ store = InitStore
    /\ streams = <<>>
    /\ InitOther

\* No call of the two actions is awaiting the API.
NoProfileCallPending ==
    IF profileStore.call = None THEN TRUE ELSE profileStore.call[1].pc = "returned"

SaveProfileData ==
    /\ NoProfileCallPending
    /\ \E profileData \in Profiles :
          profileStore' = StartProfileCall(profileStore, "save", profileData)
    /\ UNCHANGED <<store, streams, ledger, progress, requests, applied, chat, pstream>>

UpdateProfileData ==
    /\ NoProfileCallPending
    /\ \E profileData \in Profiles :
          profileStore' = StartProfileCall(profileStore, "update", profileData)
    /\ UNCHANGED <<store, streams, ledger, progress, requests, applied, chat, pstream>>

ProfileApiResolves ==
    /\ ~NoProfileCallPending
    /\ \E result \in ApiResults(profileStore.call[1].data) :
          profileStore' = ProfileCallResolved(profileStore, result)
    /\ UNCHANGED <<store, streams, ledger, progress, requests, applied, chat, pstream>>

ProfileApiRejects ==
    /\ ~NoProfileCallPending
    /\ \E message \in ApiMessages :
          profileStore' = ProfileCallRejected(profileStore, message)
    /\ UNCHANGED <<store, streams, ledger, progress, requests, applied, chat, pstream>>

NextProfile ==
    \/ SaveProfileData
    \/ UpdateProfileData
    \/ ProfileApiResolves
    \/ ProfileApiRejects

SpecProfile == InitProfile /\ [][NextProfile]_vars

\* C23: saveProfileData and updateProfileData reject an invalid profile
\* without calling the API, with error set and the stored profile as it was;
\* the stored profile changes only in the step in which the API call succeeds;
\* isSaving is true while the call awaits the API and false once the action
\* has returned, whatever the outcome.
C23_ProfileSaveDiscipline ==
    /\ [][ /\ (NoProfileCallPending /\ profileStore'.call # profileStore.call
                  /\ ValidateProfile(profileStore'.call[1].data) # <<>>)
                => /\ ~profileStore'.call[1].apiCalled
                   /\ profileStore'.call[1].pc = "returned"
                   /\ ~profileStore'.call[1].success
                   /\ profileStore'.error # None
                   /\ profileStore'.profile = profileStore.profile
           /\ profileStore'.profile # profileStore.profile
                => /\ ~NoProfileCallPending
                   /\ profileStore'.call[1].pc = "returned"
                   /\ profileStore'.call[1].success
                   /\ profileStore'.profile = Some(profileStore.call[1].data) ]_vars
    /\ [](IF profileStore.call = None THEN ~profileStore.isSaving
          ELSE profileStore.isSaving = (profileStore.call[1].pc = "pending"))

\* An update with an invalid profile has been rejected after a save that succeeded.
C23_Witness ==
    IF profileStore.call = None THEN FALSE
    ELSE /\ profileStore.call[1].kind = "update"
         /\ ~profileStore.call[1].apiCalled
         /\ profileStore.call[1].pc = "returned"
         /\ profileStore.profile = Some(ValidProfile)
         /\ profileStore.error # None
         /\ ~profileStore.isSaving

----------------------------------------------------------------------------
(* Claims about streams that run at the same time.                         *)

\* What the callbacks of a content stream write.
StreamFields(st) ==
    <<st.currentContent, st.currentTopicName, st.currentTopicDepth, st.isStreaming, st.error>>

\* C24: a step of a content stream after which a later stream was started (a
\* chunk, its end or its failure) leaves currentContent, currentTopicName,
\* currentTopicDepth, isStreaming and error as they are; and when the stream
\* started last ends, currentContent is the text of that stream.
C24_StreamsDoNotLeak ==
    [][\A i \in 1..Len(streams) :
          /\ (i < Len(streams) /\ streams'[i] # streams[i])
                => StreamFields(store') = StreamFields(store)
          /\ (i = Len(streams) /\ Len(streams') = Len(streams)
                /\ streams[i].pc = "reading" /\ streams'[i].pc = "done")
                => store'.currentContent = streams[i].text]_vars


\* C25: the displayed content matches the cursor: whenever the cursor is on a
\* list index i >= 0, the topic name and the content shown are those of
\* topicHistoryFull[i], also when a history response arrives while a content
\* stream is active.
C25_ContentMatchesCursor ==
    store.currentHistoryIndex >= 0 =>
        /\ store.currentHistoryIndex < Len(store.topicHistoryFull)
        /\ store.currentTopicName
              = Some(HistoryAt(store, store.currentHistoryIndex).topicName)
        /\ store.currentContent
              = HistoryAt(store, store.currentHistoryIndex).fullContent


----------------------------------------------------------------------------
(* SpecDepth: topics of one concept generated one after the other, each    *)
(* click waiting for the stream before it, and completed with the depth    *)
(* the store holds.                                                        *)

DepthTexts == {TextBoth, TextTopic}

InitDepth ==
    /\ store = InitStore
    /\ streams = <<>>
    /\ InitOther

\* handleConceptClick returns at once while generatingContent is set, that is
\* while the stream of the click before it is being read.
GuardedConceptClick ==
    /\ Len(streams) < MaxStreams
    /\ \A i \in 1..Len(streams) : streams[i].pc # "reading"
    /\ \E c \in Concepts, text \in DepthTexts :
          StartContentGeneration(Course, Subject, Some(c), text)
    /\ UNCHANGED <<ledger, progress, requests, applied, chat, pstream>>
    /\ UNCHANGED profileStore

NextDepth ==
    \/ GuardedConceptClick \/ ConceptSelect
    \/ SessionChunk \/ StreamDone \/ StreamError
    \/ MarkCompleteClick \/ MarkCompleteFailed \/ ClearClick

SpecDepth == InitDepth /\ [][NextDepth]_vars

\* C26: the depthIncrement completeCurrentTopic sends is the one extracted by
\* the stream that produced the content being completed (1 when that stream
\* found no marker, or failed before reporting one), never a value left by an
\* earlier stream.
C26_CompletionCarriesTopicDepth ==
    [][(Len(requests') = Len(requests) + 1 /\ streams # <<>>)
          => LET sent == requests'[Len(requests')].depthIncrement
                 s == streams[Len(streams)]
             IN \/ sent = s.depthIncrement
                \/ s.pc = "failed" /\ sent = 1]_vars


\* navigateToPrevious called on st moves the cursor.
PreviousMoves(st) == AfterPrevious(st).currentHistoryIndex # st.currentHistoryIndex

\* navigateToNext called on st moves the cursor along the list or starts a
\* new generation.
NextMovesOrStarts(st) ==
    \/ st.currentHistoryIndex >= 0
          /\ st.currentHistoryIndex < Len(st.topicHistoryFull) - 1
    \/ StartsNextTopic(st)

\* C27: canNavigatePrevious() is true exactly when navigateToPrevious would
\* move the cursor, and canNavigateNext() exactly when navigateToNext would
\* move the cursor or start a new generation.
C27_CanNavigateAgrees ==
    /\ CanNavigatePrevious(store) <=> PreviousMoves(store)
    /\ CanNavigateNext(store) <=> NextMovesOrStarts(store)


\* C28: isNavigating is true exactly when the cursor is on a list index, so
\* that "Mark as Complete", when it is shown with a topic name and no request
\* pending, is disabled exactly when the cursor is on a list index.
C28_IsNavigatingMirrorsCursor ==
    /\ store.isNavigating <=> store.currentHistoryIndex >= 0
    /\ (ActionButtonsShown(store) /\ ~store.isLoading /\ ~Falsy(store.currentTopicName))
          => (~MarkCompleteEnabled(store) <=> store.currentHistoryIndex >= 0)

\* A completed topic is shown and "Mark as Complete" is disabled for it.
C28_Witness ==
    /\ store.currentHistoryIndex >= 0
    /\ store.isNavigating
    /\ ActionButtonsShown(store)
    /\ ~store.isLoading
    /\ ~Falsy(store.currentTopicName)
    /\ ~MarkCompleteEnabled(store)
    /\ \E i \in 1..Len(streams) : streams[i].pc = "done"


\* C29: every content stream ends with exactly one terminal event: onComplete
\* (pc "done") or onError (pc "failed"), once; after it the stream calls
\* nothing more, and the terminal event leaves isStreaming and isLoading false.
C29_OneTerminalEvent ==
    [][\A i \in 1..Len(streams) :
          /\ streams[i].pc # "reading"
                => streams'[i] = streams[i] /\ store' = store
          /\ (streams[i].pc = "reading" /\ streams'[i].pc # "reading")
                => /\ streams'[i].pc \in {"done", "failed"}
                   /\ streams'[i].pos = streams[i].pos
                   /\ store'.currentContent = store.currentContent
                   /\ ~store'.isStreaming
                   /\ ~store'.isLoading
                   /\ streams'[i].pc = "failed" <=> store'.error # None]_vars

\* A stream that failed in the middle of its text has ended.
C29_Witness ==
    /\ Len(streams) = 1
    /\ streams[1].pc = "failed"
    /\ streams[1].pos > 0
    /\ streams[1].pos < Len(streams[1].text)
    /\ store.error = Some("Request failed")
    /\ ~store.isStreaming
    /\ ~store.isLoading


\* C30: once a plan-conversation stream has ended, by onComplete or by
\* onError, no message of that stream has isStreaming = TRUE and isTyping is
\* false.
C30_NoPlanMessageLeftLoading ==
    (pstream # None /\ pstream.pc \in {"done", "failed"})
        => /\ \A k \in 1..Len(chat.messages) :
                 chat.messages[k].id = pstream.messageId
                     => ~chat.messages[k].isStreaming
           /\ ~chat.isTyping

============================================================================
